---------------------------- MODULE Spec2Model ----------------------------
(***************************************************************************)
(* Magic Eight Ball firmware (firmware/src/main.cpp): the interaction      *)
(* state machine of loop(), the startup paths of setup(), the blocking     *)
(* playback of playResponseAudio(), and the seed functions.                *)
(*                                                                         *)
(* uint32_t values are pairs <<hi, lo>> of 16-bit halves, so that every    *)
(* operation keeps the 32-bit width of the code (millis(), the hashes and  *)
(* the seed all wrap modulo 2^32).                                         *)
(***************************************************************************)
EXTENDS Integers, Sequences, FiniteSets, TLC

\* ------------------------------------------------------------------------
\* Bounds of the model
\* ------------------------------------------------------------------------

\* Longest question typed (the code's String is unbounded).
MaxQuestion == 2

\* Most keys reported by one keyboard event (keysState().word).
MaxWord == 2

\* Clock budget of one run, in seconds since boot.
MaxSeconds == 13

MaxUptime == MaxSeconds * 1000

\* ------------------------------------------------------------------------
\* Program constants
\* ------------------------------------------------------------------------

\* Chunks of the capture buffer and samples per chunk.  The firmware uses
\* 134 chunks of 240 samples; the model keeps the code's arithmetic on
\* these two names and scales the values.
record_number == 4

record_length == 2

record_size == record_number * record_length

\* rec_record_idx = 2 at construction and on entering VOICE_INPUT.
RecStartIdx == 2

\* millis() - last_cursor_blink > 500
BlinkMs == 500

\* millis() - state_timer > 2000
ThinkingMs == 2000

\* millis() - state_timer > 5000
AnswerMs == 5000

\* file_size < 44
WavHeaderSize == 44

\* Responses written by generateDefaultConfig().
DefaultResponseCount == 30

\* uint32_t hash = 5381
HashInit == 5381

\* ------------------------------------------------------------------------
\* 32-bit unsigned arithmetic on <<hi, lo>>
\* ------------------------------------------------------------------------

W16 == 2^16

U32(n) == <<(n \div W16) % W16, n % W16>>

IsU32(a) == a[1] \in 0..(W16 - 1) /\ a[2] \in 0..(W16 - 1)

Add32(a, b) ==
    LET lo == a[2] + b[2]
        hi == a[1] + b[1] + (lo \div W16)
    IN  <<hi % W16, lo % W16>>

\* A subtraction of the two halves on their own, without the borrow.
Sub32_NoBorrow(a, b) == <<(a[1] - b[1]) % W16, (a[2] - b[2]) % W16>>

\* a - b modulo 2^32 (unsigned long subtraction).
Sub32(a, b) ==
    LET lo == a[2] - b[2]
        br == IF lo < 0 THEN 1 ELSE 0
        hi == a[1] - b[1] - br
    IN  <<hi % W16, lo % W16>>

RECURSIVE XorBits(_, _, _)
XorBits(x, y, n) ==
    IF n = 0 THEN 0
    ELSE (((x % 2) + (y % 2)) % 2) + 2 * XorBits(x \div 2, y \div 2, n - 1)

Xor16(x, y) == XorBits(x, y, 16)

Xor32(a, b) == <<Xor16(a[1], b[1]), Xor16(a[2], b[2])>>

\* a << k for 0 < k <= 16, modulo 2^32.
Shl32(a, k) ==
    IF k = 16 THEN <<a[2], 0>>
    ELSE <<((a[1] * (2^k)) + (a[2] \div (2^(16 - k)))) % W16,
           (a[2] * (2^k)) % W16>>

\* a >> k for 0 < k <= 16.
Shr32(a, k) ==
    IF k = 16 THEN <<0, a[1]>>
    ELSE <<a[1] \div (2^k),
           (a[2] \div (2^k)) + ((a[1] % (2^k)) * (2^(16 - k)))>>

\* (x * y) modulo 2^16 without leaving the range of the checker's integers.
MulMod16(x, y) ==
    ((x * (y % 256)) + (((x * (y \div 256)) % 256) * 256)) % W16

\* a * b modulo 2^32.
Mul32(a, b) ==
    LET p0 == a[2] * (b[2] % 256)
        p1 == a[2] * (b[2] \div 256)
        lo == (p0 % W16) + ((p1 % 256) * 256)
        hi == (p0 \div W16) + (p1 \div 256) + (lo \div W16)
              + MulMod16(a[1], b[2]) + MulMod16(a[2], b[1])
    IN  <<hi % W16, lo % W16>>

\* a > n for a small non-negative n (n < 2^16).
Gt32(a, n) == a[1] > 0 \/ a[2] > n

\* a % n for 0 < n < 2^15.
Mod32(a, n) == (((a[1] % n) * (W16 % n)) + (a[2] % n)) % n

\* ------------------------------------------------------------------------
\* Seed functions
\* ------------------------------------------------------------------------

\* A tolower() that folds nothing.
ToLower_Id(c) == c

\* tolower() on an ASCII code.
ToLower(c) == IF c >= 65 /\ c <= 90 THEN c + 32 ELSE c

\* An even multiplier, 0x85ebca6a.
Finisher_Even == <<34283, 51818>>

\* 0x85ebca6b
Finisher == <<34283, 51819>>

\* The loop of generateSeedFromText: hash = ((hash << 5) + hash) + tolower(c).
RECURSIVE Djb2(_, _)
Djb2(hash, q) ==
    IF q = <<>> THEN hash
    ELSE Djb2(Add32(Add32(Shl32(hash, 5), hash), U32(ToLower(Head(q)))), Tail(q))

\* generateSeedFromText(question), millis() returning clock.
generateSeedFromText(question, clock) ==
    LET h0 == Djb2(U32(HashInit), question)
        h1 == Xor32(h0, clock)
        h2 == Xor32(h1, Shr32(h1, 16))
        h3 == Mul32(h2, Finisher)
    IN  Xor32(h3, Shr32(h3, 13))


\* (int16_t)abs(x): abs(-32768) does not fit int16_t and stays -32768.
Abs16(x) == IF x = -32768 THEN -32768 ELSE IF x < 0 THEN -x ELSE x

\* Peak loop of generateSeedFromAudio: int16_t peak = 0; if (abs_val > peak).
RECURSIVE PeakOf(_, _)
PeakOf(peak, samples) ==
    IF samples = <<>> THEN peak
    ELSE PeakOf(IF Abs16(Head(samples)) > peak THEN Abs16(Head(samples)) ELSE peak,
                Tail(samples))

\* A zero-crossing loop that takes zero for a negative sample.
RECURSIVE ZeroCrossings_ZeroNeg(_, _)
ZeroCrossings_ZeroNeg(count, samples) ==
    IF Len(samples) < 2 THEN count
    ELSE LET a == samples[1]
             b == samples[2]
             cross == (a <= 0 /\ b > 0) \/ (a > 0 /\ b <= 0)
         IN  ZeroCrossings_ZeroNeg(IF cross THEN (count + 1) % W16 ELSE count,
                                   Tail(samples))

\* A counter of one byte.
CountUp_Byte(c) == (c + 1) % 256

\* zero_crossings++ on the uint16_t counter.
CountUp(c) == (c + 1) % W16

\* Zero-crossing loop: pairs (i-1, i) with (<0, >=0) or (>=0, <0); uint16_t counter.
RECURSIVE ZeroCrossings(_, _)
ZeroCrossings(count, samples) ==
    IF Len(samples) < 2 THEN count
    ELSE LET a == samples[1]
             b == samples[2]
             cross == (a < 0 /\ b >= 0) \/ (a >= 0 /\ b < 0)
         IN  ZeroCrossings(IF cross THEN CountUp(count) ELSE count, Tail(samples))

\* uint64_t sum_squares, kept as <<q, r>> = q * 2^30 + r with r < 2^30.
RECURSIVE SumSquares(_, _)
SumSquares(acc, samples) ==
    IF samples = <<>> THEN acc
    ELSE LET r == acc[2] + (Head(samples) * Head(samples))
         IN  SumSquares(<<acc[1] + (r \div (2^30)), r % (2^30)>>, Tail(samples))

\* sum_squares / num_samples (unsigned integer division), for num_samples < 2^15.
MeanSquare(acc, n) ==
    (acc[1] * ((2^30) \div n)) + (((acc[1] * ((2^30) % n)) + acc[2]) \div n)

\* (uint32_t)sqrt(x) for 0 <= x <= 2^30: the largest r with r * r <= x.
RECURSIVE SqrtSearch(_, _, _)
SqrtSearch(x, lo, hi) ==
    IF lo >= hi THEN lo
    ELSE LET mid == (lo + hi + 1) \div 2
         IN  IF mid * mid <= x THEN SqrtSearch(x, mid, hi)
             ELSE SqrtSearch(x, lo, mid - 1)

ISqrt(x) == SqrtSearch(x, 0, 2^15)

RmsOf(samples, n) == ISqrt(MeanSquare(SumSquares(<<0, 0>>, samples), n))

\* A combination that shifts the RMS one bit further.
CombineAudio_Shift17(peak, zc, rms, clock) ==
    LET s1 == Xor32(U32(0), U32(peak))
        s2 == Xor32(s1, Shl32(U32(zc), 8))
        s3 == Xor32(s2, Shl32(Shl32(U32(rms), 1), 16))
    IN  Xor32(s3, clock)

\* The seed of generateSeedFromAudio from its three statistics:
\* seed = 0; seed ^= (uint32_t)peak; seed ^= ((uint32_t)zero_crossings << 8);
\* seed ^= (rms << 16); seed ^= millis().
CombineAudio(peak, zc, rms, clock) ==
    LET s1 == Xor32(U32(0), U32(peak))
        s2 == Xor32(s1, Shl32(U32(zc), 8))
        s3 == Xor32(s2, Shl32(U32(rms), 16))
    IN  Xor32(s3, clock)

\* generateSeedFromAudio(audio_data, num_samples), millis() returning clock.
generateSeedFromAudio(samples, clock) ==
    CombineAudio(PeakOf(0, samples), ZeroCrossings(0, samples),
                 RmsOf(samples, Len(samples)), clock)

\* A selection that counts the responses from 1.
selectResponse_OneBased(seed, size) ==
    IF size = 0 THEN 0 ELSE (Mod32(seed, size) + 1) % 256

\* selectResponse(seed) with responses.size() = size; the result is a uint8_t.
selectResponse(seed, size) ==
    IF size = 0 THEN 0 ELSE Mod32(seed, size) % 256


\* ------------------------------------------------------------------------
\* State
\* ------------------------------------------------------------------------

VARIABLES
    pc,                   \* "setup", "loop", "playing" (inside the wait of
                          \* playResponseAudio) or "halted" (while (1), crash)
    now,                  \* millis() at the last read
    responses,            \* std::vector<Response>
    rec_alloc,            \* rec_data points to the allocated capture buffer
    rec_data,             \* the capture buffer, as record_number chunks
    current_state,
    current_question,     \* sequence of character codes
    current_response_idx,
    state_timer,
    cursor_visible,
    last_cursor_blink,
    audio_played,
    rec_record_idx,
    draw_record_idx,
    hw,                   \* Mic / Speaker: [mic, spk, playing]
    BtnA,                 \* BtnA.wasPressed() as of the last M5Cardputer.update()
                          \* of the playback wait (every pass of loop() starts
                          \* with an update() of its own, which overwrites it)
    audio_buf,            \* the transient playback buffer is allocated
    clip_file,            \* the File of the clip is open
    hist,                 \* history of the run, for the properties
    probe                 \* a seed function applied on its own: arguments and result

vars == <<pc, now, responses, rec_alloc, rec_data, current_state, current_question,
          current_response_idx, state_timer, cursor_visible, last_cursor_blink,
          audio_played, rec_record_idx, draw_record_idx, hw, BtnA, audio_buf,
                   clip_file, hist,
          probe>>

AppState == {"IDLE", "TEXT_INPUT", "VOICE_INPUT", "THINKING", "SHOWING_ANSWER"}

\* ------------------------------------------------------------------------
\* Inputs
\* ------------------------------------------------------------------------

\* Key codes a keyboard event can carry: ESC (not printable), 'A', 'a'.
Keys == {27, 65, 97}

Printable(key) == key >= 32 /\ key <= 126

RECURSIVE SeqsUpTo(_, _)
SeqsUpTo(S, n) ==
    IF n = 0 THEN {<<>>}
    ELSE LET shorter == SeqsUpTo(S, n - 1)
         IN  shorter \cup {Append(w, k) : w \in shorter, k \in S}

\* Keyboard.isChange() && Keyboard.isPressed() with its keysState(), or no event.
NoKey == [pressed |-> FALSE, word |-> <<>>, del |-> FALSE, enter |-> FALSE]

\* Events with at most one key carry any combination of the backspace and enter
\* flags; events with more keys carry the keys alone.
KeyEvents ==
    {NoKey}
    \cup [pressed : {TRUE}, word : SeqsUpTo(Keys, 1), del : BOOLEAN, enter : BOOLEAN]
    \cup [pressed : {TRUE}, word : SeqsUpTo(Keys, MaxWord), del : {FALSE}, enter : {FALSE}]

\* Milliseconds one pass of loop() (or of the playback wait) can take.
TickMs == {1000}

\* Samples the microphone can deliver, and the chunks made of them.
\* Chunks the microphone can deliver: silence, and a tone that changes sign
\* at every sample.
Silence == [i \in 1..record_length |-> 0]

MicChunks ==
    { Silence,
      [i \in 1..record_length |-> IF i % 2 = 1 THEN 1000 ELSE -1000] }

\* Contents of /responses.json on the card.
Entry(text, wav) == [text |-> text, wav_path |-> wav, bitmap_path |-> ""]

JsonArray(entries) == [kind |-> "array", entries |-> entries]

NoFile == [kind |-> "absent", entries |-> <<>>]

SDFiles ==
    { NoFile,
      [kind |-> "corrupt", entries |-> <<>>],
      JsonArray(<<Entry("", "")>>),
      JsonArray(<<Entry("", "skip.wav"), Entry("No", "no.wav"), Entry("Maybe", "")>>) }

\* What SD.open / file.size / heap_caps_malloc / file.read give for a clip.
ClipOutcomes == {"notfound", "small", "nomem", "shortread", "ok"}

\* ------------------------------------------------------------------------
\* Microphone and speaker
\* ------------------------------------------------------------------------

\* hw.both records that both were on at some point, also in the middle of
\* a step.
Seen(h) == [h EXCEPT !.both = h.both \/ (h.mic /\ h.spk)]

MicBegin(h) == Seen([h EXCEPT !.mic = TRUE])

MicEnd(h) == [h EXCEPT !.mic = FALSE]

SpeakerBegin(h) == Seen([h EXCEPT !.spk = TRUE])

SpeakerEnd(h) == [h EXCEPT !.spk = FALSE, !.playing = FALSE]

SpeakerPlayRaw(h) == [h EXCEPT !.playing = TRUE]

\* Capture start that gives up without beginning the microphone.
CaptureStart_Busy(h) == h

\* IDLE, button pressed: M5Cardputer.Mic.begin().
CaptureStart(h) == MicBegin(h)

\* Capture completion that leaves the microphone enabled.
CaptureEnd_Keep(h) == h

\* VOICE_INPUT, recording complete: M5Cardputer.Mic.end().
CaptureEnd(h) == MicEnd(h)

\* Playback start that begins the speaker without ending the microphone.
PlaybackStart_NoMicEnd(h) == SpeakerPlayRaw(SpeakerBegin(h))

\* playResponseAudio with the clip loaded: Mic.end(), Speaker.begin(),
\* Speaker.playRaw().
PlaybackStart(h) == SpeakerPlayRaw(SpeakerBegin(MicEnd(h)))

\* playResponseAudio after the wait: Speaker.end().
PlaybackEnd(h) == SpeakerEnd(h)

\* ------------------------------------------------------------------------
\* Init: the statics of main.cpp before setup() runs
\* ------------------------------------------------------------------------

HistInit ==
    [ seed_calls  |-> 0,        \* seeds computed since the machine last left IDLE
      play_calls  |-> 0,        \* calls of playResponseAudio since SHOWING_ANSWER was entered
      mic_at_call |-> "none",   \* hw.mic when playResponseAudio was last called
      mode        |-> "none",   \* how the question of this interaction was given
      spk_used    |-> FALSE,    \* a playback has run and ended
      reads       |-> 0,        \* successful Mic.record() calls of this capture
      filled      |-> {},       \* chunks of rec_data written by this capture
      dropped     |-> FALSE,    \* a printable key of this question was not stored
      show_entry  |-> <<0, 0>>, \* millis() at THINKING -> SHOWING_ANSWER
      clip_done   |-> FALSE,    \* the clip of this answer has been played
      play_end    |-> <<0, 0>>, \* millis() when its playback finished
      clip        |-> "none",   \* how playResponseAudio fared with the clip
      null_submit |-> FALSE,    \* the last TEXT_INPUT pass had a submit, question empty
      played_idx  |-> -1,       \* index playResponseAudio was last called for
      wait_press  |-> FALSE,    \* BtnA was pressed during the playback wait
      era         |-> "fresh",  \* "before_idle"/"after_idle": a run idling up to the wrap
      oob         |-> FALSE ]   \* responses[] was indexed outside the vector

Init ==
    /\ pc = "setup"
    /\ now = U32(0)
    /\ responses = <<>>
    /\ rec_alloc = FALSE
    /\ rec_data = [c \in 0..(record_number - 1) |-> Silence]
    /\ current_state = "IDLE"
    /\ current_question = <<>>
    /\ current_response_idx = 0
    /\ state_timer = U32(0)
    /\ cursor_visible = TRUE
    /\ last_cursor_blink = U32(0)
    /\ audio_played = FALSE
    /\ rec_record_idx = RecStartIdx
    /\ draw_record_idx = 0
    /\ hw = [mic |-> FALSE, spk |-> FALSE, playing |-> FALSE, both |-> FALSE]
    /\ BtnA = FALSE
    /\ audio_buf = FALSE
    /\ clip_file = FALSE
    /\ hist = HistInit
    /\ probe = [fn |-> "none"]

\* The same start of a device that is then left idle until millis() is about
\* to wrap around.
InitWrap ==
    /\ pc = "setup"
    /\ now = U32(0)
    /\ responses = <<>>
    /\ rec_alloc = FALSE
    /\ rec_data = [c \in 0..(record_number - 1) |-> Silence]
    /\ current_state = "IDLE"
    /\ current_question = <<>>
    /\ current_response_idx = 0
    /\ state_timer = U32(0)
    /\ cursor_visible = TRUE
    /\ last_cursor_blink = U32(0)
    /\ audio_played = FALSE
    /\ rec_record_idx = RecStartIdx
    /\ draw_record_idx = 0
    /\ hw = [mic |-> FALSE, spk |-> FALSE, playing |-> FALSE, both |-> FALSE]
    /\ BtnA = FALSE
    /\ audio_buf = FALSE
    /\ clip_file = FALSE
    /\ hist = [HistInit EXCEPT !.era = "before_idle"]
    /\ probe = [fn |-> "none"]

\* ------------------------------------------------------------------------
\* setup()
\* ------------------------------------------------------------------------

\* The 30 text-only responses generateDefaultConfig() writes.
DefaultResponses == [i \in 1..DefaultResponseCount |-> Entry("Default", "")]

\* loadResponsesFromSD(): the vector it leaves and the value it returns.
loadResponsesFromSD(file, old) ==
    IF file.kind # "array"
    THEN [responses |-> old, ok |-> FALSE]
    ELSE LET kept == SelectSeq(file.entries, LAMBDA r : r.text # "")
         IN  [responses |-> kept, ok |-> Len(kept) > 0]

\* SD.begin() fails: while (1).
SetupCardFailed ==
    /\ pc = "setup"
    /\ pc' = "halted"
    /\ UNCHANGED <<now, responses, rec_alloc, rec_data, current_state, current_question,
                   current_response_idx, state_timer, cursor_visible, last_cursor_blink,
                   audio_played, rec_record_idx, draw_record_idx, hw, BtnA, audio_buf,
                   clip_file,
                   hist>>

\* SD.cardType() == CARD_NONE: setup() returns, and loop() runs next.
SetupNoCard ==
    /\ pc = "setup"
    /\ pc' = "loop"
    /\ UNCHANGED <<now, responses, rec_alloc, rec_data, current_state, current_question,
                   current_response_idx, state_timer, cursor_visible, last_cursor_blink,
                   audio_played, rec_record_idx, draw_record_idx, hw, BtnA, audio_buf,
                   clip_file,
                   hist>>

\* The rest of setup(): load the responses (generating the default file when
\* the first load fails), allocate and zero rec_data, end the speaker and
\* begin the microphone.  genOk: generateDefaultConfig() succeeds; reloadOk:
\* the second load reads the generated file; allocOk: heap_caps_malloc gives
\* a buffer (the memset through a null pointer stops the program).
SetupConfig(file, genOk, reloadOk, allocOk) ==
    /\ pc = "setup"
    /\ LET first   == loadResponsesFromSD(file, responses)
           second  == IF reloadOk
                      THEN loadResponsesFromSD(JsonArray(DefaultResponses), first.responses)
                      ELSE loadResponsesFromSD(NoFile, first.responses)
           halts   == (~first.ok /\ (~genOk \/ ~second.ok)) \/ ~allocOk
       IN  /\ responses' = IF first.ok \/ ~genOk THEN first.responses ELSE second.responses
           /\ IF halts
              THEN /\ pc' = "halted"
                   /\ UNCHANGED <<rec_alloc, hw>>
              ELSE /\ pc' = "loop"
                   /\ rec_alloc' = TRUE
                   /\ hw' = MicBegin(SpeakerEnd(hw))
    /\ UNCHANGED <<now, rec_data, current_state, current_question,
                   current_response_idx, state_timer, cursor_visible, last_cursor_blink,
                   audio_played, rec_record_idx, draw_record_idx, BtnA, audio_buf,
                   clip_file, hist>>

\* ------------------------------------------------------------------------
\* loop()
\* ------------------------------------------------------------------------

\* How long before the wrap of millis() the idle device is picked up again.
WrapLead == ThinkingMs + AnswerMs

\* millis() at that moment: 2^32 - WrapLead.
WrapStart == <<W16 - 1, W16 - WrapLead>>

\* One pass of loop() lasting d ms can start: within the clock budget of the
\* run, which for the device left idle is spent around the wrap of millis().
CanTick(d) ==
    CASE hist.era = "fresh"       -> now[1] = 0 /\ now[2] + d <= MaxUptime
      [] hist.era = "before_idle" -> FALSE
      [] hist.era = "after_idle"  -> \/ now[1] = W16 - 1
                                     \/ now[1] = 0 /\ now[2] + d <= MaxUptime - WrapLead

\* Passes of loop() in IDLE without input, until millis() is WrapStart: only
\* the cursor blinks.
IdleLong ==
    /\ pc = "loop" /\ current_state = "IDLE" /\ hist.era = "before_idle"
    /\ now' = WrapStart
    /\ last_cursor_blink' = WrapStart
    /\ hist' = [hist EXCEPT !.era = "after_idle"]
    /\ UNCHANGED <<pc, responses, rec_alloc, rec_data, current_state, current_question,
                   current_response_idx, state_timer, cursor_visible, audio_played,
                   rec_record_idx, draw_record_idx, hw, BtnA, audio_buf, clip_file>>

\* The cursor blink at the top of loop().
Blink(t) ==
    IF Gt32(Sub32(t, last_cursor_blink), BlinkMs)
    THEN cursor_visible' = ~cursor_visible /\ last_cursor_blink' = t
    ELSE UNCHANGED <<cursor_visible, last_cursor_blink>>

\* A case IDLE that starts the capture where the write cursor was left.
TickIdle_NoReset(kb, btn, d) ==
    /\ pc = "loop" /\ current_state = "IDLE" /\ CanTick(d)
    /\ LET t     == Add32(now, U32(d))
           typed == IF kb.pressed THEN SelectSeq(kb.word, Printable) ELSE <<>>
       IN  /\ now' = t
           /\ Blink(t)
           /\ current_question' = IF typed # <<>> THEN <<Head(typed)>> ELSE current_question
           /\ IF btn
              THEN /\ current_state' = "VOICE_INPUT"
                   /\ UNCHANGED <<rec_record_idx, draw_record_idx>>
                   /\ hw' = CaptureStart(hw)
                   /\ state_timer' = t
              ELSE /\ current_state' = IF typed # <<>> THEN "TEXT_INPUT" ELSE "IDLE"
                   /\ UNCHANGED <<rec_record_idx, draw_record_idx, hw, state_timer>>
           /\ hist' = [hist EXCEPT !.dropped = ~btn /\ Len(typed) > 1]
    /\ UNCHANGED <<pc, responses, rec_alloc, rec_data, current_response_idx,
                   audio_played, BtnA, audio_buf, clip_file>>

\* case IDLE
TickIdle(kb, btn, d) ==
    /\ pc = "loop" /\ current_state = "IDLE" /\ CanTick(d)
    /\ LET t     == Add32(now, U32(d))
           typed == IF kb.pressed THEN SelectSeq(kb.word, Printable) ELSE <<>>
       IN  /\ now' = t
           /\ Blink(t)
           /\ current_question' = IF typed # <<>> THEN <<Head(typed)>> ELSE current_question
           /\ IF btn
              THEN /\ current_state' = "VOICE_INPUT"
                   /\ rec_record_idx' = RecStartIdx
                   /\ draw_record_idx' = 0
                   /\ hw' = CaptureStart(hw)
                   /\ state_timer' = t
              ELSE /\ current_state' = IF typed # <<>> THEN "TEXT_INPUT" ELSE "IDLE"
                   /\ UNCHANGED <<rec_record_idx, draw_record_idx, hw, state_timer>>
           /\ hist' = [hist EXCEPT !.dropped = ~btn /\ Len(typed) > 1]
    /\ UNCHANGED <<pc, responses, rec_alloc, rec_data, current_response_idx,
                   audio_played, BtnA, audio_buf, clip_file>>

\* A submit test that lets an empty question through.
CanSubmit_Always(q) == TRUE

\* if (current_question.length() > 0), the test of both submit branches.
CanSubmit(q) == Len(q) > 0

\* case TEXT_INPUT
TickTextInput(kb, btn, d) ==
    /\ pc = "loop" /\ current_state = "TEXT_INPUT" /\ CanTick(d)
    /\ LET t         == Add32(now, U32(d))
           q0        == current_question
           kbDel     == kb.pressed /\ kb.del /\ Len(q0) > 0
           kbEnter   == kb.pressed /\ ~kbDel /\ kb.enter
           kbType    == kb.pressed /\ ~kbDel /\ ~kb.enter
           q1        == IF kbDel THEN SubSeq(q0, 1, Len(q0) - 1)
                        ELSE IF kbType THEN q0 \o SelectSeq(kb.word, Printable)
                        ELSE q0
           kbSubmit  == kbEnter /\ CanSubmit(q0)
           btnSubmit == btn /\ CanSubmit(q1)
           calls     == (IF kbSubmit THEN 1 ELSE 0) + (IF btnSubmit THEN 1 ELSE 0)
           seed      == generateSeedFromText(q1, t)
       IN  /\ Len(q1) <= MaxQuestion
           /\ now' = t
           /\ Blink(t)
           /\ current_question' = q1
           /\ IF calls > 0
              THEN /\ current_response_idx' = selectResponse(seed, Len(responses))
                   /\ current_state' = "THINKING"
                   /\ state_timer' = t
              ELSE UNCHANGED <<current_response_idx, current_state, state_timer>>
           /\ hist' = [hist EXCEPT !.seed_calls = @ + calls,
                                    !.mode = IF calls > 0 THEN "text" ELSE @,
                                    !.dropped = @ \/ ((kbDel \/ kbEnter)
                                                 /\ SelectSeq(kb.word, Printable) # <<>>),
                                    !.null_submit = (kbEnter \/ btn) /\ q1 = <<>>
                                                    /\ calls = 0]
    /\ UNCHANGED <<pc, responses, rec_alloc, rec_data, audio_played, rec_record_idx,
                   draw_record_idx, hw, BtnA, audio_buf, clip_file>>

\* The samples of the whole buffer, chunk after chunk.
RECURSIVE Flatten(_, _)
Flatten(buf, c) ==
    IF c = record_number THEN <<>> ELSE buf[c] \o Flatten(buf, c + 1)

\* A display cursor that does not lag.
DrawIdx_NoLag(rec) == rec

\* draw_record_idx = rec_record_idx - 2
DrawIdx(rec) == rec - 2

\* A microphone that is taken to have delivered a chunk whenever it is enabled.
MicRecord_Always(h, ready) == h.mic

\* Mic.isEnabled() && Mic.record(...): a chunk has been delivered.
MicRecord(h, ready) == h.mic /\ ready

\* case VOICE_INPUT.  ready: Mic.record() returns true, having stored chunk
\* at the address it was given, which is rec_data itself.  On an unallocated
\* rec_data the store goes through a null pointer and stops the program.
TickVoiceInput(ready, chunk, d) ==
    /\ pc = "loop" /\ current_state = "VOICE_INPUT" /\ CanTick(d)
    /\ LET t    == Add32(now, U32(d))
           got  == MicRecord(hw, ready)
           buf  == IF got THEN [rec_data EXCEPT ![0] = chunk] ELSE rec_data
           seed == generateSeedFromAudio(Flatten(buf, 0), t)
       IN  /\ now' = t
           /\ Blink(t)
           /\ IF got /\ ~rec_alloc
              THEN /\ pc' = "halted"
                   /\ UNCHANGED <<rec_data, rec_record_idx, draw_record_idx, hw,
                                  current_response_idx, current_state, state_timer, hist>>
              ELSE /\ pc' = pc
                   /\ rec_data' = buf
                   /\ IF ~got
                      THEN UNCHANGED <<rec_record_idx, draw_record_idx, hw,
                                       current_response_idx, current_state, state_timer,
                                       hist>>
                      ELSE IF rec_record_idx < record_number
                      THEN /\ rec_record_idx' = rec_record_idx + 1
                           /\ draw_record_idx' = DrawIdx(rec_record_idx')
                           /\ hist' = [hist EXCEPT !.reads = @ + 1,
                                                    !.filled = @ \cup {0}]
                           /\ UNCHANGED <<hw, current_response_idx, current_state,
                                          state_timer>>
                      ELSE /\ hw' = CaptureEnd(hw)
                           /\ current_response_idx' = selectResponse(seed, Len(responses))
                           /\ current_state' = "THINKING"
                           /\ state_timer' = t
                           /\ hist' = [hist EXCEPT !.seed_calls = @ + 1, !.mode = "voice",
                                                    !.reads = @ + 1,
                                                    !.filled = @ \cup {0}]
                           /\ UNCHANGED <<rec_record_idx, draw_record_idx>>
    /\ UNCHANGED <<responses, rec_alloc, current_question, audio_played, BtnA, audio_buf,
                   clip_file>>

\* THINKING that selects the response again when its delay has elapsed.
TickThinking_Reselect(d) ==
    /\ pc = "loop" /\ current_state = "THINKING" /\ CanTick(d)
    /\ LET t == Add32(now, U32(d))
       IN  /\ now' = t
           /\ Blink(t)
           /\ IF Gt32(Sub32(t, state_timer), ThinkingMs)
              THEN /\ current_state' = "SHOWING_ANSWER"
                   /\ state_timer' = t
                   /\ audio_played' = FALSE
                   /\ current_response_idx' =
                         selectResponse(generateSeedFromText(current_question, t),
                                        Len(responses))
                   /\ hist' = [hist EXCEPT !.play_calls = 0, !.show_entry = t]
              ELSE UNCHANGED <<current_state, state_timer, audio_played, hist,
                               current_response_idx>>
    /\ UNCHANGED <<pc, responses, rec_alloc, rec_data, current_question,
                   rec_record_idx, draw_record_idx, hw, BtnA, audio_buf, clip_file>>

\* THINKING that ends as soon as ThinkingMs have gone by.
TickThinking_Eager(d) ==
    /\ pc = "loop" /\ current_state = "THINKING" /\ CanTick(d)
    /\ LET t == Add32(now, U32(d))
       IN  /\ now' = t
           /\ Blink(t)
           /\ IF Gt32(Sub32(t, state_timer), ThinkingMs - 1)
              THEN /\ current_state' = "SHOWING_ANSWER"
                   /\ state_timer' = t
                   /\ audio_played' = FALSE
                   /\ hist' = [hist EXCEPT !.play_calls = 0, !.show_entry = t]
              ELSE UNCHANGED <<current_state, state_timer, audio_played, hist>>
    /\ UNCHANGED <<pc, responses, rec_alloc, rec_data, current_question,
                   current_response_idx, rec_record_idx, draw_record_idx, hw, BtnA,
                   audio_buf, clip_file>>

\* case THINKING
TickThinking(d) ==
    /\ pc = "loop" /\ current_state = "THINKING" /\ CanTick(d)
    /\ LET t == Add32(now, U32(d))
       IN  /\ now' = t
           /\ Blink(t)
           /\ IF Gt32(Sub32(t, state_timer), ThinkingMs)
              THEN /\ current_state' = "SHOWING_ANSWER"
                   /\ state_timer' = t
                   /\ audio_played' = FALSE
                   /\ hist' = [hist EXCEPT !.play_calls = 0, !.show_entry = t]
              ELSE UNCHANGED <<current_state, state_timer, audio_played, hist>>
    /\ UNCHANGED <<pc, responses, rec_alloc, rec_data, current_question,
                   current_response_idx, rec_record_idx, draw_record_idx, hw, BtnA,
                   audio_buf, clip_file>>

\* An end of SHOWING_ANSWER that goes back to typing instead of to IDLE.
ReturnToIdle_ToText(pressed, t, timer, h) ==
    IF pressed \/ Gt32(Sub32(t, timer), AnswerMs)
    THEN /\ current_state' = "TEXT_INPUT"
         /\ current_question' = <<>>
         /\ audio_played' = FALSE
         /\ hist' = [h EXCEPT !.seed_calls = 0, !.mic_at_call = "none", !.mode = "none",
                               !.reads = 0, !.filled = {}, !.dropped = FALSE,
                               !.show_entry = <<0, 0>>, !.clip_done = FALSE,
                               !.play_end = <<0, 0>>, !.clip = "none",
                               !.played_idx = -1]
    ELSE /\ audio_played' = TRUE
         /\ hist' = h
         /\ UNCHANGED <<current_state, current_question>>

\* An end of SHOWING_ANSWER that keeps the question.
ReturnToIdle_KeepQuestion(pressed, t, timer, h) ==
    IF pressed \/ Gt32(Sub32(t, timer), AnswerMs)
    THEN /\ current_state' = "IDLE"
         /\ current_question' = current_question
         /\ audio_played' = FALSE
         /\ hist' = [h EXCEPT !.seed_calls = 0, !.mic_at_call = "none", !.mode = "none",
                               !.reads = 0, !.filled = {}, !.dropped = FALSE,
                               !.show_entry = <<0, 0>>, !.clip_done = FALSE,
                               !.play_end = <<0, 0>>, !.clip = "none",
                               !.played_idx = -1]
    ELSE /\ audio_played' = TRUE
         /\ hist' = h
         /\ UNCHANGED <<current_state, current_question>>

\* An end of SHOWING_ANSWER that forgets the clip was played.
ReturnToIdle_Replay(pressed, t, timer, h) ==
    IF pressed \/ Gt32(Sub32(t, timer), AnswerMs)
    THEN /\ current_state' = "IDLE"
         /\ current_question' = <<>>
         /\ audio_played' = FALSE
         /\ hist' = [h EXCEPT !.seed_calls = 0, !.mic_at_call = "none", !.mode = "none",
                               !.reads = 0, !.filled = {}, !.dropped = FALSE,
                               !.show_entry = <<0, 0>>, !.clip_done = FALSE,
                               !.play_end = <<0, 0>>, !.clip = "none",
                               !.played_idx = -1]
    ELSE /\ audio_played' = FALSE
         /\ hist' = h
         /\ UNCHANGED <<current_state, current_question>>

\* An end of SHOWING_ANSWER that leaves audio_played set.
ReturnToIdle_KeepFlag(pressed, t, timer, h) ==
    IF pressed \/ Gt32(Sub32(t, timer), AnswerMs)
    THEN /\ current_state' = "IDLE"
         /\ current_question' = <<>>
         /\ audio_played' = TRUE
         /\ hist' = [h EXCEPT !.seed_calls = 0, !.mic_at_call = "none", !.mode = "none",
                               !.reads = 0, !.filled = {}, !.dropped = FALSE,
                               !.show_entry = <<0, 0>>, !.clip_done = FALSE,
                               !.play_end = <<0, 0>>, !.clip = "none",
                               !.played_idx = -1]
    ELSE /\ audio_played' = TRUE
         /\ hist' = h
         /\ UNCHANGED <<current_state, current_question>>

\* The end of case SHOWING_ANSWER: back to IDLE on the button or after
\* AnswerMs since timer.
ReturnToIdle(pressed, t, timer, h) ==
    IF pressed \/ Gt32(Sub32(t, timer), AnswerMs)
    THEN /\ current_state' = "IDLE"
         /\ current_question' = <<>>
         /\ audio_played' = FALSE
         /\ hist' = [h EXCEPT !.seed_calls = 0, !.mic_at_call = "none", !.mode = "none",
                               !.reads = 0, !.filled = {}, !.dropped = FALSE,
                               !.show_entry = <<0, 0>>, !.clip_done = FALSE,
                               !.play_end = <<0, 0>>, !.clip = "none",
                               !.played_idx = -1]
    ELSE /\ audio_played' = TRUE
         /\ hist' = h
         /\ UNCHANGED <<current_state, current_question>>

\* What responses[current_response_idx] yields when the index is outside
\* the vector: the program stops, or an empty wav_path is read there.
JunkReads == {"crash", ""}

\* A load that takes a file below the header size for a clip.
LoadClip_SmallPlays(path, clip) ==
    IF path = "" \/ clip \in {"notfound", "nomem", "shortread"}
    THEN [loaded |-> FALSE, file_open |-> FALSE, buf |-> FALSE]
    ELSE [loaded |-> TRUE, file_open |-> FALSE, buf |-> TRUE]

\* A load that returns on a short read without free(audio_buf).
LoadClip_LeakOnShortRead(path, clip) ==
    IF path = "" \/ clip \in {"notfound", "small", "nomem"}
    THEN [loaded |-> FALSE, file_open |-> FALSE, buf |-> FALSE]
    ELSE IF clip = "shortread"
    THEN [loaded |-> FALSE, file_open |-> FALSE, buf |-> TRUE]
    ELSE [loaded |-> TRUE, file_open |-> FALSE, buf |-> TRUE]

\* playResponseAudio up to the read of the clip: whether the clip is loaded
\* and what is held when the function returns early or goes on to play.
LoadClip(path, clip) ==
    IF path = "" \/ clip = "notfound"
    THEN \* return before or right after SD.open: nothing was acquired
         [loaded |-> FALSE, file_open |-> FALSE, buf |-> FALSE]
    ELSE IF clip \in {"small", "nomem"}
    THEN \* file.close(); return
         [loaded |-> FALSE, file_open |-> FALSE, buf |-> FALSE]
    ELSE IF clip = "shortread"
    THEN \* file.close(); free(audio_buf); return
         [loaded |-> FALSE, file_open |-> FALSE, buf |-> FALSE]
    ELSE \* file.close(); the buffer is kept for playRaw
         [loaded |-> TRUE, file_open |-> FALSE, buf |-> TRUE]

\* case SHOWING_ANSWER.  clip: what opening and reading the clip gives when
\* the path is not empty.
TickShowingAnswer(clip, btn, d) ==
    /\ pc = "loop" /\ current_state = "SHOWING_ANSWER" /\ CanTick(d)
    /\ LET t      == Add32(now, U32(d))
           inside == current_response_idx < Len(responses)
           paths  == IF inside THEN {responses[current_response_idx + 1].wav_path}
                     ELSE JunkReads
           h2(p)  == [hist EXCEPT !.play_calls = @ + 1,
                                  !.mic_at_call = IF hw.mic THEN "on" ELSE "off",
                                  !.oob = @ \/ ~inside,
                                  !.clip = IF p = "" THEN "empty" ELSE clip,
                                  !.played_idx = current_response_idx]
       IN  /\ now' = t
           /\ Blink(t)
           /\ IF audio_played
              THEN /\ BtnA' = FALSE
                   /\ ReturnToIdle(btn, t, state_timer, hist)
                   /\ UNCHANGED <<pc, state_timer, hw, audio_buf, clip_file>>
              ELSE \E path \in paths :
                   IF ~inside /\ path = "crash"
                   THEN /\ pc' = "halted"
                        /\ audio_played' = TRUE
                        /\ hist' = h2("")
                        /\ UNCHANGED <<state_timer, hw, BtnA, audio_buf, clip_file,
                                       current_state, current_question>>
                   ELSE LET r == LoadClip(path, clip)
                        IN  /\ audio_buf' = r.buf
                            /\ clip_file' = r.file_open
                            /\ IF r.loaded
                               THEN /\ pc' = "playing"
                                    /\ audio_played' = TRUE
                                    /\ BtnA' = btn
                                    /\ \E playing \in BOOLEAN :
                                          hw' = [PlaybackStart(hw)
                                                   EXCEPT !.playing = playing]
                                    /\ hist' = h2(path)
                                    /\ UNCHANGED <<state_timer, current_state,
                                                   current_question>>
                               ELSE /\ state_timer' = t
                                    /\ BtnA' = FALSE
                                    /\ ReturnToIdle(btn, t, t, h2(path))
                                    /\ UNCHANGED <<pc, hw>>
    /\ UNCHANGED <<responses, rec_alloc, rec_data, current_response_idx,
                   rec_record_idx, draw_record_idx>>

\* A wait in which the button ends the speaker.
PlayPoll_ButtonStops(btn, d, done) ==
    /\ pc = "playing" /\ hw.playing /\ CanTick(d)
    /\ now' = Add32(now, U32(d))
    /\ BtnA' = btn
    /\ hw' = IF btn THEN SpeakerEnd(hw) ELSE [hw EXCEPT !.playing = ~done]
    /\ hist' = [hist EXCEPT !.wait_press = @ \/ btn]
    /\ UNCHANGED <<pc, responses, rec_alloc, rec_data, current_state, current_question,
                   current_response_idx, state_timer, cursor_visible, last_cursor_blink,
                   audio_played, rec_record_idx, draw_record_idx, audio_buf,
                   clip_file>>

\* One turn of the wait in playResponseAudio: delay(10), M5Cardputer.update().
\* done: the speaker has finished by the next test of isPlaying().
PlayPoll(btn, d, done) ==
    /\ pc = "playing" /\ hw.playing /\ CanTick(d)
    /\ now' = Add32(now, U32(d))
    /\ BtnA' = btn
    /\ hw' = [hw EXCEPT !.playing = ~done]
    /\ hist' = [hist EXCEPT !.wait_press = @ \/ btn]
    /\ UNCHANGED <<pc, responses, rec_alloc, rec_data, current_state, current_question,
                   current_response_idx, state_timer, cursor_visible, last_cursor_blink,
                   audio_played, rec_record_idx, draw_record_idx, audio_buf,
                   clip_file>>

\* An end of playback that leaves state_timer as SHOWING_ANSWER was entered.
PlayFinish_KeepTimer ==
    /\ pc = "playing" /\ ~hw.playing
    /\ pc' = "loop"
    /\ hw' = PlaybackEnd(hw)
    /\ audio_buf' = FALSE
    /\ state_timer' = state_timer
    /\ BtnA' = FALSE
    /\ ReturnToIdle(BtnA, now, state_timer,
                    [hist EXCEPT !.spk_used = TRUE, !.clip_done = TRUE, !.play_end = now,
                                  !.wait_press = FALSE])
    /\ UNCHANGED <<now, responses, rec_alloc, rec_data, current_response_idx,
                   cursor_visible, last_cursor_blink, rec_record_idx, draw_record_idx,
                   clip_file>>

\* isPlaying() is false: Speaker.end(), free(audio_buf), return; then the rest
\* of case SHOWING_ANSWER.
PlayFinish ==
    /\ pc = "playing" /\ ~hw.playing
    /\ pc' = "loop"
    /\ hw' = PlaybackEnd(hw)
    /\ audio_buf' = FALSE
    /\ state_timer' = now
    /\ BtnA' = FALSE
    /\ ReturnToIdle(BtnA, now, now,
                    [hist EXCEPT !.spk_used = TRUE, !.clip_done = TRUE, !.play_end = now,
                                  !.wait_press = FALSE])
    /\ UNCHANGED <<now, responses, rec_alloc, rec_data, current_response_idx,
                   cursor_visible, last_cursor_blink, rec_record_idx, draw_record_idx,
                   clip_file>>

\* ------------------------------------------------------------------------
\* Specification
\* ------------------------------------------------------------------------

Setup ==
    \/ SetupCardFailed
    \/ SetupNoCard
    \/ \E file \in SDFiles, genOk \in BOOLEAN, reloadOk \in BOOLEAN, allocOk \in BOOLEAN :
          SetupConfig(file, genOk, reloadOk, allocOk)

Loop ==
    \/ \E kb \in KeyEvents, btn \in BOOLEAN, d \in TickMs : TickIdle(kb, btn, d)
    \/ \E kb \in KeyEvents, btn \in BOOLEAN, d \in TickMs : TickTextInput(kb, btn, d)
    \/ \E ready \in BOOLEAN, chunk \in MicChunks, d \in TickMs :
          TickVoiceInput(ready, chunk, d)
    \/ \E d \in TickMs : TickThinking(d)
    \/ \E clip \in ClipOutcomes, btn \in BOOLEAN, d \in TickMs :
          TickShowingAnswer(clip, btn, d)
    \/ \E btn \in BOOLEAN, d \in TickMs, done \in BOOLEAN : PlayPoll(btn, d, done)
    \/ PlayFinish

Next == (Setup \/ Loop) /\ UNCHANGED probe

Spec == Init /\ [][Next]_vars

\* The device left idle until millis() wraps.
NextWrap == (Setup \/ Loop \/ IdleLong) /\ UNCHANGED probe

SpecWrap == InitWrap /\ [][NextWrap]_vars

\* ------------------------------------------------------------------------
\* The seed functions on their own
\* ------------------------------------------------------------------------

\* Seeds and response counts selectResponse is applied to.
ProbeSeeds ==
    {<<hi, lo>> : hi \in {0, 1, 32768, 65535}, lo \in {0, 1, 29, 255, 256, 299, 65535}}

ProbeSizes == {1, 2, 3, 30, 255, 256, 257, 300}

machine == <<pc, now, responses, rec_alloc, rec_data, current_state, current_question,
             current_response_idx, state_timer, cursor_visible, last_cursor_blink,
             audio_played, rec_record_idx, draw_record_idx, hw, BtnA, audio_buf,
                   clip_file, hist>>

\* current_response_idx = selectResponse(seed) with size responses loaded.
ApplySelect(seed, size) ==
    /\ probe.fn = "none"
    /\ probe' = [fn |-> "selectResponse", seed |-> seed, size |-> size,
                 out |-> selectResponse(seed, size)]
    /\ UNCHANGED machine

\* Clock values and questions generateSeedFromText is applied to.
ProbeClocks ==
    {<<0, 0>>, <<0, 1>>, <<0, 2000>>, <<1, 0>>, <<32768, 32768>>, <<65535, 65535>>}

ProbeQuestions == SeqsUpTo(Keys, MaxQuestion)

\* generateSeedFromText(question) called twice, millis() returning clock and
\* then clock2.
ApplyText(question, clock, clock2) ==
    /\ probe.fn = "none"
    /\ probe' = [fn |-> "generateSeedFromText", question |-> question,
                 clock |-> clock, clock2 |-> clock2,
                 out |-> generateSeedFromText(question, clock),
                 out2 |-> generateSeedFromText(question, clock2)]
    /\ UNCHANGED machine

\* Buffers of record_size samples generateSeedFromAudio is applied to.
ProbeBuffers ==
    {[i \in 1..record_size |-> 0],
     [i \in 1..record_size |-> IF i % 2 = 1 THEN 1000 ELSE -1000],
     [i \in 1..record_size |-> IF i % 2 = 1 THEN 0 ELSE -1],
     [i \in 1..record_size |-> IF i = 1 THEN 32767 ELSE 0],
     [i \in 1..record_size |-> IF i = 2 THEN -32768 ELSE 100],
     [i \in 1..record_size |-> 10000],
     [i \in 1..record_size |-> (i * 1000) - 4000]}

\* generateSeedFromAudio(rec_data, record_size), millis() returning clock.
ApplyAudio(samples, clock) ==
    /\ probe.fn = "none"
    /\ probe' = [fn |-> "generateSeedFromAudio", samples |-> samples, clock |-> clock,
                 peak |-> PeakOf(0, samples),
                 out |-> generateSeedFromAudio(samples, clock)]
    /\ UNCHANGED machine

\* Values of int16_t peak, uint16_t zero_crossings and uint32_t rms.
ProbePeaks == {0, 1, 255, 256, 32767}

ProbeCrossings == {0, 1, 255, 256, 65535}

ProbeRms == {0, 1, 255, 256, 32767, 32768}

ProbeStats == [peak : ProbePeaks, zc : ProbeCrossings, rms : ProbeRms]

\* The XOR lines of generateSeedFromAudio on two sets of statistics.
ApplyCombine(stats, stats2, clock) ==
    /\ probe.fn = "none"
    /\ probe' = [fn |-> "CombineAudio", stats |-> stats, stats2 |-> stats2,
                 clock |-> clock,
                 out |-> CombineAudio(stats.peak, stats.zc, stats.rms, clock),
                 out2 |-> CombineAudio(stats2.peak, stats2.zc, stats2.rms, clock)]
    /\ UNCHANGED machine

\* stats and stats2 differ in exactly one statistic.
OneDiffers(stats, stats2) ==
    Cardinality({f \in {"peak", "zc", "rms"} : stats[f] # stats2[f]}) = 1

\* Response counts a submitted question is resolved against.
SubmitSizes == {1, 2, 30}

\* The submit of TEXT_INPUT, seed = generateSeedFromText(current_question);
\* current_response_idx = selectResponse(seed), done for one question at
\* clock and again at clock2.
ApplySubmit(question, clock, clock2, size) ==
    /\ probe.fn = "none"
    /\ probe' = [fn |-> "submit", question |-> question, size |-> size,
                 clock |-> clock, clock2 |-> clock2,
                 seed |-> generateSeedFromText(question, clock),
                 seed2 |-> generateSeedFromText(question, clock2),
                 idx |-> selectResponse(generateSeedFromText(question, clock), size),
                 idx2 |-> selectResponse(generateSeedFromText(question, clock2), size)]
    /\ UNCHANGED machine

NextFn ==
    \/ \E seed \in ProbeSeeds, size \in ProbeSizes : ApplySelect(seed, size)
    \/ \E question \in ProbeQuestions \ {<<>>}, clock \in ProbeClocks,
          clock2 \in ProbeClocks, size \in SubmitSizes :
          ApplySubmit(question, clock, clock2, size)
    \/ \E samples \in ProbeBuffers, clock \in ProbeClocks : ApplyAudio(samples, clock)
    \/ \E stats \in ProbeStats, clock \in {<<0, 0>>, <<65535, 65535>>} :
          \E stats2 \in {x \in ProbeStats : OneDiffers(stats, x)} :
             ApplyCombine(stats, stats2, clock)
    \/ \E question \in ProbeQuestions, clock \in ProbeClocks, clock2 \in ProbeClocks :
          ApplyText(question, clock, clock2)

SpecFn == Init /\ [][NextFn]_vars

\* ------------------------------------------------------------------------
\* The loops of generateSeedFromAudio on a buffer of the firmware's size
\* ------------------------------------------------------------------------

\* record_number, record_length and record_size as the firmware has them.
FwRecordNumber == 134

FwRecordLength == 240

FwRecordSize == FwRecordNumber * FwRecordLength

\* Buffers of extreme samples: all INT16_MIN, all INT16_MAX, and the two in
\* alternation.
ScanPatterns == {"min", "max", "alt"}

\* audio_data[i] of such a buffer.
ScanSample(pattern, i) ==
    CASE pattern = "min" -> -32768
      [] pattern = "max" -> 32767
      [] pattern = "alt" -> IF i % 2 = 0 THEN -32768 ELSE 32767

\* Index i of the zero-crossing loop and of the sum loop.  zc is the uint16_t
\* counter and crossings the number of crossings met; sq is the product, sum
\* the accumulator as <<q, r>> = q * 2^30 + r.
ScanOne(acc) ==
    LET i     == acc.i
        a     == ScanSample(acc.pattern, i)
        b     == ScanSample(acc.pattern, i - 1)
        cross == i > 0 /\ ((b < 0 /\ a >= 0) \/ (b >= 0 /\ a < 0))
        sq    == a * a
        r     == acc.sum[2] + sq
    IN  [acc EXCEPT !.i = i + 1,
                    !.zc = IF cross THEN CountUp(@) ELSE @,
                    !.crossings = IF cross THEN @ + 1 ELSE @,
                    !.sq = IF sq > @ THEN sq ELSE @,
                    !.sum = <<acc.sum[1] + (r \div (2^30)), r % (2^30)>>]

\* Indexes of the loops taken in one step.
ScanStride == 24

\* k more indexes of the loops, as far as the buffer goes.
RECURSIVE ScanSamples(_, _)
ScanSamples(acc, k) ==
    IF k = 0 \/ acc.i = FwRecordSize THEN acc ELSE ScanSamples(ScanOne(acc), k - 1)

\* generateSeedFromAudio(rec_data, record_size) is entered.
ScanStart(pattern) ==
    /\ probe.fn = "none"
    /\ probe' = [fn |-> "scan", pattern |-> pattern, i |-> 0, zc |-> 0, crossings |-> 0,
                 sq |-> 0, sum |-> <<0, 0>>, rms |-> 0, done |-> FALSE]
    /\ UNCHANGED machine

\* The loops over the next indexes of the buffer.
ScanChunk ==
    /\ probe.fn = "scan" /\ probe.i < FwRecordSize
    /\ probe' = ScanSamples(probe, ScanStride)
    /\ UNCHANGED machine

\* uint32_t rms = sqrt(sum_squares / num_samples).
ScanFinish ==
    /\ probe.fn = "scan" /\ probe.i = FwRecordSize /\ ~probe.done
    /\ probe' = [probe EXCEPT !.done = TRUE,
                              !.rms = ISqrt(MeanSquare(probe.sum, FwRecordSize))]
    /\ UNCHANGED machine

NextScan ==
    \/ \E pattern \in ScanPatterns : ScanStart(pattern)
    \/ ScanChunk
    \/ ScanFinish

SpecScan == Init /\ [][NextScan]_vars

\* ------------------------------------------------------------------------
\* Properties
\* ------------------------------------------------------------------------

\* C1: in every reachable state, also inside the playback wait, the
\* microphone and the speaker are never both enabled, nor were they at any
\* point inside a step.
C1_MicSpeakerExclusive == ~(hw.mic /\ hw.spk) /\ ~hw.both

\* C1 witness: inside the playback wait, started with the microphone enabled.
C1_Witness == pc = "playing" /\ hw.spk /\ hw.playing /\ hist.mic_at_call = "on"

\* C2 as stated: whenever playResponseAudio is called the microphone is not
\* enabled.
C2_MicOffAtCall == hist.mic_at_call # "on"

\* C2: on the voice path the microphone was ended at capture completion, so
\* it is off when playResponseAudio is called; on the text path it may still
\* be enabled at the call, and in both cases it is off once the clip plays.
C2_MicOffBeforeSpeaker ==
    /\ hist.mode = "voice" => hist.mic_at_call # "on"
    /\ pc = "playing" => ~hw.mic

\* C2 witness: playResponseAudio has been called on the voice path.
C2_Witness == hist.mode = "voice" /\ hist.mic_at_call = "off"

Allowed ==
    {<<"IDLE", "TEXT_INPUT">>, <<"IDLE", "VOICE_INPUT">>, <<"TEXT_INPUT", "THINKING">>,
     <<"VOICE_INPUT", "THINKING">>, <<"THINKING", "SHOWING_ANSWER">>,
     <<"SHOWING_ANSWER", "IDLE">>}

C5_SeedOnce == current_state \in {"THINKING", "SHOWING_ANSWER"} => hist.seed_calls = 1

\* C6: no step taken in THINKING or SHOWING_ANSWER changes
\* current_response_idx.
C6_IndexFixed ==
    [][(current_state \in {"THINKING", "SHOWING_ANSWER"})
          => (current_response_idx' = current_response_idx)]_vars

\* C6 witness: a selected index other than 0 is the one whose clip was asked for.
C6_Witness ==
    current_state = "SHOWING_ANSWER" /\ audio_played /\ current_response_idx > 0

\* C7 as stated: selectResponse returns seed mod responseCount for every
\* responseCount >= 1.
C7_SelectIsMod ==
    probe.fn = "selectResponse" => probe.out = Mod32(probe.seed, probe.size)

\* C8 as stated: every use of current_response_idx as an index into
\* responses in SHOWING_ANSWER is within bounds.
C8_IndexInBounds == ~hist.oob

\* C9 as stated: whenever the loop runs, the response set is not empty,
\* every response has a text, and the capture buffer is allocated.
C9_LoopHasResponses ==
    pc \in {"loop", "playing"}
        => /\ Len(responses) > 0
           /\ \A i \in 1..Len(responses) : responses[i].text # ""
           /\ rec_alloc

\* C11: for one question and two different clock values,
\* generateSeedFromText returns two different seeds.
C11_ClockInjective ==
    (probe.fn = "generateSeedFromText" /\ probe.clock # probe.clock2)
        => probe.out # probe.out2

\* C11 witness: a question hashed at two clocks that differ in bits 15 and 31
\* only, the pair an even multiplier would merge.
C11_Witness ==
    /\ probe.fn = "generateSeedFromText"
    /\ probe.question # <<>>
    /\ probe.clock = <<0, 0>> /\ probe.clock2 = <<32768, 32768>>
    /\ probe.out # probe.out2

\* The accumulator after the characters of q, each step being
\* acc * mult + extra * acc + lowercase(c) modulo 2^32.
RECURSIVE RefHash(_, _, _, _)
RefHash(acc, q, mult, extra) ==
    IF q = <<>> THEN acc
    ELSE LET c     == Head(q)
             lower == IF c \in 65..90 THEN c + 32 ELSE c
             prod  == Mul32(acc, U32(mult))
             more  == IF extra = 1 THEN Add32(prod, acc) ELSE prod
         IN  RefHash(Add32(more, U32(lower)), Tail(q), mult, extra)

\* The clock mixed in and the finisher applied.
RefFinish(acc, clock) ==
    LET a1 == Xor32(acc, clock)
        a2 == Xor32(a1, <<0, a1[1]>>)
        a3 == Mul32(a2, <<34283, 51819>>)
    IN  Xor32(a3, Shr32(a3, 13))

\* C12 as stated: the seed is the reference with the step
\* acc = acc*33 + acc + lowercase(c).
C12_SeedIsStatedReference ==
    probe.fn = "generateSeedFromText"
        => probe.out = RefFinish(RefHash(U32(5381), probe.question, 33, 1), probe.clock)

\* C12: the seed is the reference with the step acc = acc*33 + lowercase(c)
\* modulo 2^32, starting at 5381, then the clock XOR and the finisher.
C12_SeedIsDjb2Reference ==
    probe.fn = "generateSeedFromText"
        => probe.out = RefFinish(RefHash(U32(5381), probe.question, 33, 0), probe.clock)

\* C12 witness: a two-character question with an upper-case letter was hashed.
C12_Witness ==
    /\ probe.fn = "generateSeedFromText"
    /\ Len(probe.question) = 2 /\ probe.question[1] = 65
    /\ probe.clock = <<0, 2000>>

\* The sum of the squares of the samples.
RECURSIVE RefSum(_)
RefSum(samples) ==
    IF samples = <<>> THEN 0 ELSE (Head(samples) * Head(samples)) + RefSum(Tail(samples))

\* peak XOR (zeroCrossings << 8) XOR (rms << 16) XOR clock, written on the
\* two 16-bit halves; peak is the value of the peak loop.
RefAudio(samples, clock) ==
    LET n    == Len(samples)
        peak == PeakOf(0, samples)
        zc   == Cardinality({i \in 2..n : (samples[i - 1] < 0) # (samples[i] < 0)})
        ms   == RefSum(samples) \div n
        rms  == CHOOSE r \in 0..32768 : r * r <= ms /\ ms < (r + 1) * (r + 1)
    IN  <<Xor16(Xor16(zc \div 256, rms), clock[1]),
          Xor16(Xor16(peak, (zc % 256) * 256), clock[2])>>

C14_OneStatisticChangesSeed ==
    (probe.fn = "CombineAudio" /\ OneDiffers(probe.stats, probe.stats2))
        => probe.out # probe.out2

\* C14 witness: the largest RMS against RMS 0, everything else equal.
C14_Witness ==
    /\ probe.fn = "CombineAudio"
    /\ probe.stats.rms = 0 /\ probe.stats2.rms = 32768
    /\ probe.stats.peak = probe.stats2.peak /\ probe.stats.zc = probe.stats2.zc
    /\ probe.out # probe.out2

\* C15 as stated: a capture is not complete before its record_number-th
\* successful read and is complete at that read.
C15_CompletesOnLastChunk ==
    /\ current_state = "VOICE_INPUT" => hist.reads < record_number
    /\ hist.mode = "voice" => hist.reads = record_number

\* C16 as stated: when a capture is complete, every chunk of rec_data has
\* been written by one of its reads.
C16_EveryChunkFilled ==
    hist.mode = "voice" => hist.filled = 0..(record_number - 1)

\* C17 as stated: a pass of TEXT_INPUT whose key event has the backspace
\* flag, taken with an empty question, leaves the question empty, the state
\* TEXT_INPUT and everything but the clock and the cursor blink unchanged.
C17_BackspaceOnEmptyNoOp ==
    [][\A kb \in KeyEvents, d \in TickMs :
          (current_question = <<>> /\ kb.pressed /\ kb.del /\ TickTextInput(kb, FALSE, d))
             => /\ current_question' = <<>>
                /\ current_state' = "TEXT_INPUT"
                /\ UNCHANGED <<pc, responses, rec_alloc, rec_data, current_response_idx,
                               state_timer, audio_played, rec_record_idx,
                               draw_record_idx, hw, audio_buf>>]_vars

\* C18 as stated: after a text submit the stored index is
\* selectResponse(generateSeedFromText(q)) at the clock of the submit, and q
\* holds every printable key pressed since IDLE.
C18_IndexFromTypedText ==
    (current_state = "THINKING" /\ hist.mode = "text")
        => /\ current_response_idx =
                 selectResponse(generateSeedFromText(current_question, state_timer),
                                Len(responses))
           /\ ~hist.dropped

\* a >= n for a small non-negative n.
Ge32(a, n) == a[1] > 0 \/ a[2] >= n

\* C19 as stated: showing a response without wav_path changes neither the
\* microphone nor the speaker nor the clip buffer, and without the button
\* a pass returns to IDLE once more than 5000 ms have gone by since
\* SHOWING_ANSWER was entered, and not before 5000 ms.
C19_SilentAnswerFromEntry ==
    [][(/\ pc = "loop" /\ current_state = "SHOWING_ANSWER"
        /\ current_response_idx < Len(responses)
        /\ responses[current_response_idx + 1].wav_path = "")
          => /\ UNCHANGED <<hw, audio_buf>>
             /\ \A clip \in ClipOutcomes, d \in TickMs :
                   TickShowingAnswer(clip, FALSE, d)
                     => LET elapsed == Sub32(now', hist.show_entry)
                        IN  /\ Gt32(elapsed, AnswerMs) => current_state' = "IDLE"
                            /\ current_state' = "IDLE" => Ge32(elapsed, AnswerMs)]_vars

C21_ThinkingEndsAt2000 ==
    [][(pc = "loop" /\ current_state = "THINKING")
          => \A d \in TickMs :
                TickThinking(d)
                  => (current_state' = "SHOWING_ANSWER"
                        <=> Ge32(Sub32(now', state_timer), ThinkingMs))]_vars

\* C21: a pass in THINKING moves to SHOWING_ANSWER exactly when more than
\* 2000 ms have gone by since THINKING was entered; at 2000 ms sharp it stays.
C21_ThinkingEndsAfter2000 ==
    [][(pc = "loop" /\ current_state = "THINKING")
          => \A d \in TickMs :
                TickThinking(d)
                  => /\ Sub32(now', state_timer) = U32(ThinkingMs)
                          => current_state' = "THINKING"
                     /\ current_state' = "SHOWING_ANSWER"
                          <=> Ge32(Sub32(now', state_timer), ThinkingMs + 1)]_vars

\* C21 witness: still THINKING 2000 ms after THINKING was entered.
C21_Witness ==
    pc = "loop" /\ current_state = "THINKING" /\ Sub32(now, state_timer) = U32(ThinkingMs)

\* C22: when the selected response names a clip that is not found or is
\* below the header size, the pass that calls playResponseAudio leaves the
\* microphone and the speaker as they were, holds no buffer and no file,
\* keeps the loop running, and goes on as for a response without clip: the
\* timer starts, and the state is IDLE on the button, SHOWING_ANSWER otherwise.
C22_BadClipIsSilent ==
    [][(/\ pc = "loop" /\ current_state = "SHOWING_ANSWER" /\ ~audio_played
        /\ current_response_idx < Len(responses)
        /\ responses[current_response_idx + 1].wav_path # "")
          => \A clip \in {"notfound", "small"}, btn \in BOOLEAN, d \in TickMs :
                TickShowingAnswer(clip, btn, d)
                  => /\ hw' = hw
                     /\ ~audio_buf' /\ ~clip_file'
                     /\ pc' = "loop"
                     /\ state_timer' = now'
                     /\ current_response_idx' = current_response_idx
                     /\ current_state' = IF btn THEN "IDLE" ELSE "SHOWING_ANSWER"]_vars

\* C22 witness: the answer is shown after a clip below the header size was
\* refused, the microphone still enabled as setup left it.
C22_Witness ==
    /\ pc = "loop" /\ current_state = "SHOWING_ANSWER" /\ hist.clip = "small"
    /\ hw.mic /\ ~hw.spk /\ ~audio_buf

\* C23: outside the playback wait no transient buffer is allocated, and the
\* file of the clip is never left open, whichever way playResponseAudio
\* returned.
C23_ClipResourcesReleased ==
    /\ pc # "playing" => ~audio_buf
    /\ ~clip_file

\* C23 witness: playResponseAudio has returned after a short read.
C23_Witness == pc = "loop" /\ hist.clip = "shortread" /\ ~audio_buf /\ ~clip_file

\* C24: while the speaker is playing, every step stays in the playback wait
\* with the speaker on, the clip buffer held and the state unchanged, also
\* when the button is pressed; and every step taken in VOICE_INPUT either
\* stays there with the microphone on and the write cursor not moved back,
\* or is the completion of the capture (cursor at record_number, state
\* THINKING).
C24_NoCancellation ==
    [][/\ (pc = "playing" /\ hw.playing)
             => /\ pc' = "playing" /\ hw'.spk /\ audio_buf'
                /\ current_state' = current_state
       /\ (pc = "loop" /\ current_state = "VOICE_INPUT")
             => \/ /\ current_state' = "VOICE_INPUT"
                   /\ hw'.mic
                   /\ rec_record_idx' >= rec_record_idx
                \/ /\ current_state' = "THINKING"
                   /\ rec_record_idx = record_number]_vars

\* C24 witness: the button was pressed during the wait and the clip is
\* still playing.
C24_Witness == pc = "playing" /\ BtnA /\ hw.playing /\ hw.spk /\ audio_buf

\* C25 as stated: a pass of TEXT_INPUT whose key event carries ESC (code 27)
\* clears the question and returns to IDLE.
C25_EscReturnsToIdle ==
    [][(pc = "loop" /\ current_state = "TEXT_INPUT")
          => \A kb \in KeyEvents, d \in TickMs :
                (/\ kb.pressed
                 /\ \E i \in 1..Len(kb.word) : kb.word[i] = 27
                 /\ TickTextInput(kb, FALSE, d))
                  => (current_state' = "IDLE" /\ current_question' = <<>>)]_vars

\* C27 as stated, its last clause: after THINKING has been entered the
\* machine is in no state in which it has stopped.
C27_NeverStopsAfterThinking ==
    ~(pc = "halted" /\ current_state \in {"THINKING", "SHOWING_ANSWER"})

\* C28: no step taken in THINKING or SHOWING_ANSWER changes the capture
\* buffer, and the question stays as it is unless the step returns to IDLE,
\* which clears it.
C28_QuestionFixed ==
    [][(current_state \in {"THINKING", "SHOWING_ANSWER"})
          => /\ rec_data' = rec_data
             /\ current_question' =
                   IF current_state' = "IDLE" THEN <<>> ELSE current_question]_vars

\* C28 witness: a typed question is still stored when the answer has been
\* shown for 5000 ms.
C28_Witness ==
    /\ pc = "loop" /\ current_state = "SHOWING_ANSWER" /\ audio_played
    /\ hist.mode = "text" /\ current_question # <<>>
    /\ Sub32(now, state_timer) = U32(AnswerMs)

\* C29 as stated: in VOICE_INPUT, and in THINKING and SHOWING_ANSWER reached
\* from it, the text question is empty.
C29_NoTextOnVoicePath ==
    (current_state = "VOICE_INPUT" \/ hist.mode = "voice") => current_question = <<>>

\* C30: a pass of VOICE_INPUT in which the microphone delivers nothing
\* returns with the state, both cursors, the buffer, the response index and
\* the microphone unchanged.
C30_NoDataNoChange ==
    [][(pc = "loop" /\ current_state = "VOICE_INPUT")
          => \A chunk \in MicChunks, d \in TickMs :
                TickVoiceInput(FALSE, chunk, d)
                  => /\ pc' = "loop"
                     /\ UNCHANGED <<current_state, rec_record_idx, draw_record_idx,
                                    rec_data, current_response_idx, hw, state_timer>>]_vars

\* C30 witness: a pass of VOICE_INPUT has gone by and no chunk was delivered.
C30_Witness ==
    /\ pc = "loop" /\ current_state = "VOICE_INPUT" /\ hw.mic
    /\ hist.reads = 0 /\ rec_record_idx = RecStartIdx
    /\ Ge32(Sub32(now, state_timer), 1000)

C31_CursorsInStep ==
    current_state = "VOICE_INPUT" =>
        /\ draw_record_idx = rec_record_idx - 2
        /\ rec_record_idx \in 2..record_number
        /\ \A x \in 0..(record_length - 1) :
              draw_record_idx * record_length + x \in 0..(record_size - 1)

\* C31 witness: VOICE_INPUT with the write cursor at its upper limit.
C31_Witness ==
    /\ current_state = "VOICE_INPUT" /\ pc = "loop"
    /\ rec_record_idx = record_number /\ hist.reads = record_number - 2

\* C34: in TEXT_INPUT with an empty question, a pass whose only input is a
\* submit (Enter, or the button without a key) leaves the state, the question,
\* the response index, the timer and the number of seed computations as they
\* were; and TEXT_INPUT is left for THINKING only with a question that is not
\* empty.
C34_EmptySubmitNoOp ==
    [][ /\ (pc = "loop" /\ current_state = "TEXT_INPUT" /\ current_question = <<>>) =>
             (\A kb \in KeyEvents, btn \in BOOLEAN, d \in TickMs :
                 (/\ (kb.pressed /\ kb.enter) \/ (~kb.pressed /\ btn)
                  /\ TickTextInput(kb, btn, d))
                 => /\ current_state' = "TEXT_INPUT"
                    /\ current_question' = <<>>
                    /\ current_response_idx' = current_response_idx
                    /\ state_timer' = state_timer
                    /\ hist'.seed_calls = hist.seed_calls)
        /\ (current_state = "TEXT_INPUT" /\ current_state' # "TEXT_INPUT") =>
             (current_state' = "THINKING" /\ current_question' # <<>>)
      ]_vars

\* C34 witness: TEXT_INPUT after a pass that had a submit with the question
\* empty.
C34_Witness ==
    /\ current_state = "TEXT_INPUT" /\ current_question = <<>>
    /\ hist.null_submit /\ hist.seed_calls = 0

\* C35: per entry into SHOWING_ANSWER playResponseAudio is called exactly
\* once, on the first pass there and for the selected response; it is called
\* in no other state and not a second time before the return to IDLE.
C35_PlayOncePerAnswer ==
    /\ [](/\ hist.play_calls \in {0, 1}
          /\ (current_state = "SHOWING_ANSWER" /\ audio_played) =>
                (hist.play_calls = 1 /\ hist.played_idx = current_response_idx)
          /\ (current_state = "SHOWING_ANSWER" /\ ~audio_played) => hist.play_calls = 0
          /\ pc = "playing" => current_state = "SHOWING_ANSWER")
    /\ [][ /\ hist'.play_calls > hist.play_calls =>
                (current_state = "SHOWING_ANSWER" /\ ~audio_played /\ pc = "loop")
           /\ (current_state = "SHOWING_ANSWER" /\ ~audio_played) =>
                (hist'.play_calls = 1 /\ hist.play_calls = 0)
         ]_vars

\* C35 witness: the second pass of SHOWING_ANSWER after a clip was played, the
\* one call behind it.
C35_Witness ==
    /\ current_state = "SHOWING_ANSWER" /\ pc = "loop" /\ audio_played
    /\ hist.clip_done /\ hist.play_calls = 1
    /\ Gt32(Sub32(now, hist.play_end), 0)

\* C36: when the button was pressed at some moment of the playback wait, the
\* machine is in IDLE as soon as playResponseAudio has returned.
C36_PressShortensDwell ==
    [][ (pc = "playing" /\ hist.wait_press /\ pc' = "loop") => (current_state' = "IDLE")
      ]_vars

\* C37: in IDLE between two passes of loop() the question is empty and
\* audio_played is false.
C37_IdleIsClean ==
    (pc = "loop" /\ current_state = "IDLE") =>
        (current_question = <<>> /\ ~audio_played)

\* C37 witness: IDLE again after an answer whose clip was played.
C37_Witness ==
    /\ pc = "loop" /\ current_state = "IDLE"
    /\ hist.spk_used /\ hist.play_calls = 1

Unwrapped(x) == IF x[1] = W16 - 1 THEN x[2] - W16 ELSE x[2]

\* C39: around the wrap of millis(), THINKING ends on exactly the passes at
\* which more than ThinkingMs have truly elapsed since state_timer, and a
\* silent SHOWING_ANSWER without the button on those at which more than
\* AnswerMs have.
C39_TimeoutsAcrossWrap ==
    [][ /\ (pc = "loop" /\ current_state = "THINKING") =>
             (\A d \in TickMs :
                 TickThinking(d) =>
                    ((current_state' = "SHOWING_ANSWER")
                       <=> (Unwrapped(now') - Unwrapped(state_timer) > ThinkingMs)))
        /\ (pc = "loop" /\ current_state = "SHOWING_ANSWER" /\ audio_played) =>
             (\A clip \in ClipOutcomes, d \in TickMs :
                 TickShowingAnswer(clip, FALSE, d) =>
                    ((current_state' = "IDLE")
                       <=> (Unwrapped(now') - Unwrapped(state_timer) > AnswerMs)))
      ]_vars

\* C39 witness: THINKING with state_timer set before the wrap and millis()
\* past it, exactly ThinkingMs later.
C39_Witness ==
    /\ current_state = "THINKING" /\ pc = "loop"
    /\ state_timer[1] = W16 - 1 /\ now[1] = 0
    /\ Sub32(now, state_timer) = U32(ThinkingMs)

\* C39 witness for the answer: SHOWING_ANSWER entered before the wrap and
\* still shown past it.
C39_WitnessAnswer ==
    /\ current_state = "SHOWING_ANSWER" /\ pc = "loop" /\ audio_played
    /\ state_timer[1] = W16 - 1 /\ now[1] = 0
    /\ Sub32(now, state_timer) = U32(AnswerMs)


\* The largest absolute value among samples.
RECURSIVE RefMaxAbs(_)
RefMaxAbs(samples) ==
    IF samples = <<>> THEN 0
    ELSE LET a == IF Head(samples) < 0 THEN 0 - Head(samples) ELSE Head(samples)
             m == RefMaxAbs(Tail(samples))
         IN  IF a > m THEN a ELSE m

\* C32: the peak generateSeedFromAudio takes from a buffer is the largest
\* absolute value of its samples, also when -32768 is among them.
C32_PeakIsMaxAbs ==
    probe.fn = "generateSeedFromAudio" => probe.peak = RefMaxAbs(probe.samples)

\* C33: over a buffer of record_size = 32160 samples no step overflows: the
\* product of a sample with itself fits 32 bits signed, the sum of the
\* products fits 64 bits, the 16-bit counter holds the number of zero
\* crossings, and rms << 16 loses no bit of rms in 32 bits.
C33_NoOverflow ==
    probe.fn = "scan" =>
        /\ probe.sq \in 0..((2^30 - 1) + 2^30)
        /\ probe.sum[1] \div (2^4) < 2^30
        /\ probe.zc = probe.crossings
        /\ probe.rms < W16
        /\ Shl32(U32(probe.rms), 16) = <<probe.rms, 0>>

\* C33 witness: the loops done over a full buffer of -32768, where the
\* product, the sum and the RMS are largest.
C33_Witness ==
    /\ probe.fn = "scan" /\ probe.done /\ probe.pattern = "min"
    /\ probe.i = 32160
    /\ probe.sq = 2^30 /\ probe.sum = <<32160, 0>> /\ probe.rms = 2^15

\* C33 witness for the counter: the loops done over a full buffer that
\* changes sign at every sample.
C33_WitnessCrossings ==
    /\ probe.fn = "scan" /\ probe.done /\ probe.pattern = "alt"
    /\ probe.crossings = 32160 - 1

=============================================================================
